---- MODULE Spec2Model ----
(***************************************************************************)
(* OBD dashboard: radial gauges, the refresh tick that merges simulated or *)
(* live readings into the dashboard state, the trouble-code actions and    *)
(* the start-up mode selection, for the three GUI implementations          *)
(*   "tk"        src/dashboard.py                (background thread)      *)
(*   "qt"        src/obd_dashboard_gui.py        (UI timer)               *)
(*   "qt_backup" src/obd_dashboard_gui_backup.py (UI timer)               *)
(*                                                                         *)
(* Numbers are fixed-point tenths: 1.0 is 10 and 0.5 is 5.  Only the       *)
(* distance since clear is kept in hundredths of a km (0.01 is 1).         *)
(* A Python value that may be None is a sequence: <<>> is None, <<v>> is v.*)
(***************************************************************************)
EXTENDS Integers, Sequences, FiniteSets, TLC

\* ------------------------------------------------------------------ values
Fx(n) == 10 * n

Km(n) == 100 * n

None == <<>>

Some(v) == <<v>>

Min2(a, b) == IF a <= b THEN a ELSE b

Max2(a, b) == IF a >= b THEN a ELSE b

Abs(x) == IF x < 0 THEN -x ELSE x

Variants == {"tk", "qt", "qt_backup"}

\* ------------------------------------------------------------------ gauges
GaugeNames ==
    {"speed", "rpm", "throttle", "coolant", "intake_t", "oil",
     "fuel_p", "fuel_r", "intake_p"}

\* the (min, max) every variant constructs its nine gauges with
GaugeSpec ==
    [speed    |-> [min_val |-> Fx(0),   max_val |-> Fx(200)],
     rpm      |-> [min_val |-> Fx(0),   max_val |-> Fx(8000)],
     throttle |-> [min_val |-> Fx(0),   max_val |-> Fx(100)],
     coolant  |-> [min_val |-> Fx(-40), max_val |-> Fx(120)],
     intake_t |-> [min_val |-> Fx(-40), max_val |-> Fx(80)],
     oil      |-> [min_val |-> Fx(0),   max_val |-> Fx(150)],
     fuel_p   |-> [min_val |-> Fx(0),   max_val |-> Fx(600)],
     fuel_r   |-> [min_val |-> Fx(0),   max_val |-> Fx(50)],
     intake_p |-> [min_val |-> Fx(0),   max_val |-> Fx(300)]]

\* redraw threshold 0.5 of GaugeWidget.set_value
Threshold == 5

\* the arc starts at 225 degrees and sweeps 270 degrees
StartAngle == 225

SpanAngle == 270

\* max(self.min_val, min(self.max_val, val))
NoClamp(sp, val) == val

Clamp(sp, val) == Max2(sp.min_val, Min2(sp.max_val, val))

\* What draw() / paintEvent hands to the renderer for the value it finds in
\* self.value / self.current_value.
\* ratio = num / den.  extent16 is the active arc's extent in sixteenths of
\* a degree, times den; needle is the needle angle in degrees, times den.
\* tk:  extent = -270 * ratio (create_arc takes degrees)
\* qt:  int(active_span * 16) with active_span = +270 * ratio
Geometry(v, sp, value) ==
    LET num == value - sp.min_val
        den == sp.max_val - sp.min_val
    IN  [num      |-> num,
         den      |-> den,
         extent16 |-> IF v = "tk"
                      THEN -(SpanAngle * 16 * num)
                      ELSE IF num >= 0
                           THEN ((SpanAngle * 16 * num) \div den) * den
                           ELSE -(((SpanAngle * 16 * (-num)) \div den) * den),
         needle   |-> StartAngle * den - SpanAngle * num]

\* range(9): the scale marks of a gauge
NumTicks == 9

\* int(x) for x = n / d with d > 0: truncation toward zero
IntTrunc(n, d) == IF n >= 0 THEN n \div d ELSE -((-n) \div d)

\* marks spaced by the number of marks, not by the number of gaps
DrawMarksByCount(sp) ==
    [i \in 0..(NumTicks - 1) |->
        [angle8 |-> StartAngle * 9 - SpanAngle * i,
         val80  |-> sp.min_val * 9 + (sp.max_val - sp.min_val) * i,
         label  |-> IntTrunc(sp.min_val * 9 + (sp.max_val - sp.min_val) * i,
                             90)]]

\* _draw_marks / _draw_scale_marks: for each mark i its angle in eighths of
\* a degree (225 - 270 * i / 8), its value in eightieths (the range is kept
\* in tenths: min + (max - min) * i / 8) and the label str(int(val))
_draw_marks(sp) ==
    [i \in 0..(NumTicks - 1) |->
        [angle8 |-> StartAngle * 8 - SpanAngle * i,
         val80  |-> sp.min_val * 8 + (sp.max_val - sp.min_val) * i,
         label  |-> IntTrunc(sp.min_val * 8 + (sp.max_val - sp.min_val) * i,
                             80)]]

\* A gauge after construction: value 0, nothing drawn through set_value yet.
\*   value   self.value / self.current_value
\*   last    the value most recently drawn on behalf of set_value: tk keeps
\*           it in self._last_drawn_value; the Qt widgets have no such field
\*           and paint current_value after every set_value
\*   arg     the argument of the most recent set_value call
\*   redraws how many draw() / update() calls that call made
\* Every write of value is followed by a draw, so what is on screen is
\* always Geometry(variant, spec, value).
NewGauge(v, sp) ==
    [value   |-> 0,
     last    |-> None,
     arg     |-> None,
     redraws |-> 0]

\* GaugeWidget.set_value of the Qt variants: always store, always update()
SetValueQt(v, sp, g, val) ==
    LET new_val == Clamp(sp, val)
    IN  [value   |-> new_val,
         last    |-> Some(new_val),
         arg     |-> Some(val),
         redraws |-> 1]

\* a set_value that compares with the previous argument, not with the value
\* last drawn
SetValueTkByArg(v, sp, g, val) ==
    LET new_val == Clamp(sp, val)
    IN  IF g.arg = None \/ Abs(new_val - Clamp(sp, g.arg[1])) > Threshold
        THEN [value   |-> new_val,
              last    |-> Some(new_val),
              arg     |-> Some(val),
              redraws |-> 1]
        ELSE [g EXCEPT !.arg = Some(val), !.redraws = 0]

\* GaugeWidget.set_value of dashboard.py: redraw only past the threshold
SetValueTk(v, sp, g, val) ==
    LET new_val == Clamp(sp, val)
    IN  IF g.last = None \/ Abs(new_val - g.last[1]) > Threshold
        THEN [value   |-> new_val,
              last    |-> Some(new_val),
              arg     |-> Some(val),
              redraws |-> 1]
        ELSE [g EXCEPT !.arg = Some(val), !.redraws = 0]

SetValue(v, sp, g, val) ==
    IF v = "tk" THEN SetValueTk(v, sp, g, val) ELSE SetValueQt(v, sp, g, val)

\* --------------------------------------------------------------- commands
\* the metric names _update reads through the command catalog, in the order
\* dashboard.py queries them
LiveMetrics ==
    {"speed", "rpm", "throttle_pos", "eng_load", "timing_advance",
     "coolant_temp", "intake_temp", "oil_temp", "fuel_pressure", "fuel_rate",
     "maf", "max_maf", "run_time", "dist_since_dtc_cleared",
     "time_since_dtc_cleared"}

\* every local of one tick: the catalog metrics and the never-queried ip
Metrics == LiveMetrics \cup {"intake_pressure"}

\* the catalog keys the dashboards look up
AllCommands == LiveMetrics \cup {"get_dtc", "clear_dtc"}

\* the default argument of each _read call
Default ==
    [speed                  |-> Fx(0),
     rpm                    |-> Fx(0),
     throttle_pos           |-> Fx(0),
     eng_load               |-> Fx(0),
     timing_advance         |-> Fx(0),
     coolant_temp           |-> Fx(80),
     intake_temp            |-> Fx(25),
     oil_temp               |-> Fx(90),
     fuel_pressure          |-> Fx(300),
     fuel_rate              |-> Fx(5),
     maf                    |-> Fx(10),
     max_maf                |-> Fx(255),
     run_time               |-> Fx(0),
     dist_since_dtc_cleared |-> Km(0),
     time_since_dtc_cleared |-> Fx(0)]

\* the gauge each metric drives
GaugeOf ==
    [speed           |-> "speed",
     rpm             |-> "rpm",
     throttle_pos    |-> "throttle",
     coolant_temp    |-> "coolant",
     intake_temp     |-> "intake_t",
     oil_temp        |-> "oil",
     fuel_pressure   |-> "fuel_p",
     fuel_rate       |-> "fuel_r",
     intake_pressure |-> "intake_p"]

\* One answer of the adapter to obd_connection.query(command):
\*   tag "val"   a non-null response whose value is v
\*   tag "null"  response.is_null()
\*   tag "raise" query raised
Resp(tag, v) == [tag |-> tag, v |-> v]

\* read_obd_data(command): the value, or None when the query raised or the
\* response is null
read_obd_data(r) == IF r.tag = "val" THEN Some(r.v) ELSE None

\* What a tick remembers of one metric: q is what happened to its query
\* ("none": no query was issued), out is the local the tick then uses.
NoRead == [q |-> "none", out |-> None]

\* OBDDashboard._read / _read_obd_value / read_obd_value outside simulation:
\* the entry of snap for metric m, given the catalog and the adapter's answer
ReadNoDefault(v, cmds, m, r) ==
    IF m \notin cmds
    THEN [q |-> "none", out |-> IF v = "qt_backup" THEN Some(Default[m]) ELSE None]
    ELSE [q |-> r.tag, out |-> read_obd_data(r)]

Read(v, cmds, m, r) ==
    IF m \notin cmds
    THEN [q |-> "none", out |-> IF v = "qt_backup" THEN Some(Default[m]) ELSE None]
    ELSE [q   |-> r.tag,
          out |-> IF read_obd_data(r) # None THEN read_obd_data(r)
                  ELSE Some(Default[m])]

\* ------------------------------------------------------------------ state
VARIABLES
    variant,        \* which of the three programs runs
    phase,          \* "boot" before OBDDashboard.__init__, "running" after,
                    \* "aborted" once the process has died, "destroyed"
                    \* once the window is closed, "blocked" while the UI
                    \* thread is inside a query that does not return
    argv_real,      \* "--real" in sys.argv
    use_sim,        \* self.use_sim / self.use_simulation
    commands,       \* the keys of self.commands
    obd_connection, \* module global: "None", "unconnected" or "connected"
    connects,       \* how many times obd.OBD(...) was attempted
    runtime,        \* self.runtime / self.runtime_seconds
    dist_dtc,       \* self.dist_dtc / self.distance_since_clear
    time_dtc,       \* self.time_dtc / self.time_since_clear
    gauges,         \* the nine GaugeWidgets
    labels,         \* the numbers behind the labels and bars
    snap,           \* the locals of the most recent tick, per metric
    issued,         \* the commands the most recent handler queried, in order
    done,           \* the most recent handler: which, how it ended, its notice
    _running,       \* tk: the stop flag of the background loop
    thread_pc,      \* tk: where the background loop is
    queue,          \* tk: callbacks posted with after(0, ...) and not yet run
    current_page,   \* self.current_page / the stacked widget's index, 0..3
    presses         \* tk: physical presses of the GPIO button so far

vars ==
    <<variant, phase, argv_real, use_sim, commands, obd_connection, connects,
      runtime, dist_dtc, time_dtc, gauges, labels, snap, issued, done,
      _running, thread_pc, queue, current_page, presses>>

\* ----------------------------------------------------------- the tick body
\* int(x) of a number in tenths: truncation toward zero
IntOf(x) == IF x >= 0 THEN x \div 10 ELSE -((-x) \div 10)

\* a clock whose hours wrap at 24
ClockWrapped(x) ==
    <<(x \div 36000) % 24, (x % 36000) \div 600, (x % 600) \div 10>>

\* h, m, s = int(x // 3600), int((x % 3600) // 60), int(x % 60)
Clock(x) == <<x \div 36000, (x % 36000) \div 600, (x % 600) \div 10>>

\* the decimal digits of n >= 0, most significant first
RECURSIVE Digits(_)
Digits(n) == IF n < 10 THEN <<n>> ELSE Append(Digits(n \div 10), n % 10)

\* f"{n:02d}" for n >= 0, as its sequence of digits
Format02d(n) == IF n < 10 THEN <<0, n>> ELSE Digits(n)

\* f"{h:02d}:{m:02d}:{s:02d}": the three fields of the clock text
ClockText(c) == <<Format02d(c[1]), Format02d(c[2]), Format02d(c[3])>>

\* the labels and bars as the page constructors leave them
NewLabels ==
    [load     |-> 0,           \* int(ld) of "MOTORBELASTNING: ..%"
     load_bar |-> 0,           \* ld of load_bar.set(ld / 100)
     timing   |-> 0,           \* tim of the timing label
     runtime  |-> <<0, 0, 0>>, \* the run-time clock
     maf      |-> 0,           \* maf of the MAF label
     maf_bar  |-> <<0, 1>>,    \* the bar's fraction, numerator and denominator
     max_maf  |-> Fx(255),     \* mmaf of the max-MAF label
     dist     |-> 0,           \* the distance label
     time     |-> <<0, 0, 0>>] \* the time-since-clear clock

\* The running state of one tick: what it has changed so far, and whether a
\* statement has raised (after which nothing more of the tick runs).
TickStart(gs, ls, rt, dd, td) ==
    [gauges |-> gs, labels |-> ls, runtime |-> rt, dist_dtc |-> dd,
     time_dtc |-> td, snap |-> [m \in Metrics |-> NoRead], issued |-> <<>>,
     raised |-> FALSE]

\* One local assignment of the tick's first block.  In simulation the value
\* is drawn (inp.sim); otherwise it is _read(m, default), which queries the
\* adapter when m is in the catalog.  intake_pressure is drawn in both modes.
SampleQueryAlways(st, v, sim, cmds, inp, m) ==
    IF m = "intake_pressure"
    THEN [st EXCEPT !.snap[m] = [q |-> "none", out |-> Some(inp.ip)]]
    ELSE IF sim
    THEN [st EXCEPT !.snap[m] = [q |-> "none", out |-> Some(inp.sim[m])]]
    ELSE [st EXCEPT !.snap[m] = Read(v, cmds, m, inp.resp[m]),
                    !.issued = Append(@, m)]

Sample(st, v, sim, cmds, inp, m) ==
    IF m = "intake_pressure"
    THEN [st EXCEPT !.snap[m] = [q |-> "none", out |-> Some(inp.ip)]]
    ELSE IF sim
    THEN [st EXCEPT !.snap[m] = [q |-> "none", out |-> Some(inp.sim[m])]]
    ELSE [st EXCEPT !.snap[m] = Read(v, cmds, m, inp.resp[m]),
                    !.issued = IF m \in cmds THEN Append(@, m) ELSE @]

\* gauge.set_value(local): min(self.max_val, None) raises TypeError
SetGauge(st, v, m) ==
    LET g == GaugeOf[m]
        x == st.snap[m].out
    IN  IF x = None
        THEN [st EXCEPT !.raised = TRUE]
        ELSE [st EXCEPT !.gauges[g] = SetValue(v, GaugeSpec[g], @, x[1])]

\* load label and bar: int(None) raises TypeError
SetLoad(st) ==
    LET x == st.snap["eng_load"].out
    IN  IF x = None
        THEN [st EXCEPT !.raised = TRUE]
        ELSE [st EXCEPT !.labels.load = IntOf(x[1]), !.labels.load_bar = x[1]]

\* timing label: f"{None:.1f}" raises TypeError
SetTiming(st) ==
    LET x == st.snap["timing_advance"].out
    IN  IF x = None
        THEN [st EXCEPT !.raised = TRUE]
        ELSE [st EXCEPT !.labels.timing = x[1]]

\* the run-time block: += 0.1 in simulation; otherwise rt = _read(...) and
\* "if rt > 0" (None > 0 raises TypeError), then the clock label
SetRuntimeAlways(st, v, sim, cmds, inp) ==
    IF sim
    THEN [st EXCEPT !.runtime = @ + 1, !.labels.runtime = Clock(st.runtime + 1)]
    ELSE LET s1 == Sample(st, v, sim, cmds, inp, "run_time")
             rt == s1.snap["run_time"].out
         IN  IF rt = None
             THEN [s1 EXCEPT !.raised = TRUE]
             ELSE [s1 EXCEPT !.runtime = rt[1], !.labels.runtime = Clock(rt[1])]

SetRuntime(st, v, sim, cmds, inp) ==
    IF sim
    THEN [st EXCEPT !.runtime = @ + 1, !.labels.runtime = Clock(st.runtime + 1)]
    ELSE LET s1 == Sample(st, v, sim, cmds, inp, "run_time")
             rt == s1.snap["run_time"].out
         IN  IF rt = None
             THEN [s1 EXCEPT !.raised = TRUE]
             ELSE LET new == IF rt[1] > 0 THEN rt[1] ELSE s1.runtime
                  IN  [s1 EXCEPT !.runtime = new, !.labels.runtime = Clock(new)]

\* a MAF block that divides without the "mmaf > 0" guard: ZeroDivisionError
\* at 0, a negative fraction below it
SetMafUnguarded(st, v) ==
    LET maf  == st.snap["maf"].out
        mmaf == st.snap["max_maf"].out
    IN  IF maf = None
        THEN [st EXCEPT !.raised = TRUE]
        ELSE IF mmaf = None \/ mmaf[1] = 0
        THEN [st EXCEPT !.labels.maf = maf[1], !.raised = TRUE]
        ELSE [st EXCEPT
                !.labels.maf = maf[1],
                !.labels.maf_bar = <<maf[1], mmaf[1]>>,
                !.labels.max_maf = mmaf[1]]

\* MAF label, bar and max-MAF label: formatting None raises TypeError.
\* tk: maf_bar.set((maf / mmaf) if mmaf > 0 else 0)
\* qt: maf_progress.setValue(int((maf / max_maf) * 100) if max_maf > 0 else 0)
SetMaf(st, v) ==
    LET maf  == st.snap["maf"].out
        mmaf == st.snap["max_maf"].out
    IN  IF maf = None
        THEN [st EXCEPT !.raised = TRUE]
        ELSE IF mmaf = None
        THEN [st EXCEPT !.labels.maf = maf[1], !.raised = TRUE]
        ELSE [st EXCEPT
                !.labels.maf = maf[1],
                !.labels.maf_bar =
                    IF mmaf[1] > 0
                    THEN IF v = "tk" THEN <<maf[1], mmaf[1]>>
                         ELSE <<IF maf[1] >= 0 THEN (100 * maf[1]) \div mmaf[1]
                                ELSE -((100 * (-maf[1])) \div mmaf[1]), 100>>
                    ELSE <<0, 1>>,
                !.labels.max_maf = mmaf[1]]

\* the since-clear block.  Simulation adds uniform(0.01, 0.05) km and 0.1 s.
\* Otherwise d and t are read and overwrite only when truthy and positive
\* ("if d and d > 0": None is skipped without raising); the backup variant
\* reads and applies d before it reads t.  Then the two labels.
SetSinceClearPeriod(st, v, sim, cmds, inp) ==
    LET s1 == IF sim THEN st
              ELSE Sample(Sample(st, v, sim, cmds, inp, "dist_since_dtc_cleared"),
                          v, sim, cmds, inp, "time_since_dtc_cleared")
        d  == s1.snap["dist_since_dtc_cleared"].out
        t  == s1.snap["time_since_dtc_cleared"].out
        dd == IF sim THEN s1.dist_dtc + inp.dinc
              ELSE IF d # None /\ d[1] > 0 THEN d[1] ELSE s1.dist_dtc
        td == IF sim THEN s1.time_dtc + (IF v = "tk" THEN 3 ELSE 1)
              ELSE IF t # None /\ t[1] > 0 THEN t[1] ELSE s1.time_dtc
    IN  [s1 EXCEPT !.dist_dtc = dd, !.time_dtc = td,
                   !.labels.dist = dd, !.labels.time = Clock(td)]

SetSinceClear(st, v, sim, cmds, inp) ==
    LET s1 == IF sim THEN st
              ELSE Sample(Sample(st, v, sim, cmds, inp, "dist_since_dtc_cleared"),
                          v, sim, cmds, inp, "time_since_dtc_cleared")
        d  == s1.snap["dist_since_dtc_cleared"].out
        t  == s1.snap["time_since_dtc_cleared"].out
        dd == IF sim THEN s1.dist_dtc + inp.dinc
              ELSE IF d # None /\ d[1] > 0 THEN d[1] ELSE s1.dist_dtc
        td == IF sim THEN s1.time_dtc + 1
              ELSE IF t # None /\ t[1] > 0 THEN t[1] ELSE s1.time_dtc
    IN  [s1 EXCEPT !.dist_dtc = dd, !.time_dtc = td,
                   !.labels.dist = dd, !.labels.time = Clock(td)]

\* one statement of the tick, applied to the running state x
Statement(x, v, sim, cmds, inp, kind, m) ==
    CASE kind = "sample"  -> Sample(x, v, sim, cmds, inp, m)
      [] kind = "gauge"   -> SetGauge(x, v, m)
      [] kind = "load"    -> SetLoad(x)
      [] kind = "timing"  -> SetTiming(x)
      [] kind = "runtime" -> SetRuntime(x, v, sim, cmds, inp)
      [] kind = "maf"     -> SetMaf(x, v)
      [] kind = "since"   -> SetSinceClear(x, v, sim, cmds, inp)

\* one statement of the tick; nothing runs once the tick has raised.  The
\* running state st is evaluated once and bound to x.
Step(st, v, sim, cmds, inp, kind, m) ==
    CHOOSE r \in {IF x.raised THEN x
                  ELSE Statement(x, v, sim, cmds, inp, kind, m) : x \in {st}} : TRUE

\* The statements of _update (dashboard.py) and _update_data
\* (obd_dashboard_gui.py) in program order: all thirteen locals first.
UpdateMain(s0, v, sim, cmds, inp) ==
    LET st ++ step == Step(st, v, sim, cmds, inp, step[1], step[2])
    IN  s0
        ++ <<"sample", "speed">>
        ++ <<"sample", "rpm">>
        ++ <<"sample", "throttle_pos">>
        ++ <<"sample", "eng_load">>
        ++ <<"sample", "timing_advance">>
        ++ <<"sample", "coolant_temp">>
        ++ <<"sample", "intake_temp">>
        ++ <<"sample", "oil_temp">>
        ++ <<"sample", "fuel_pressure">>
        ++ <<"sample", "fuel_rate">>
        ++ <<"sample", "intake_pressure">>
        ++ <<"sample", "maf">>
        ++ <<"sample", "max_maf">>
        ++ <<"gauge", "speed">>
        ++ <<"gauge", "rpm">>
        ++ <<"gauge", "throttle_pos">>
        ++ <<"load", "eng_load">>
        ++ <<"timing", "timing_advance">>
        ++ <<"runtime", "run_time">>
        ++ <<"gauge", "coolant_temp">>
        ++ <<"gauge", "intake_temp">>
        ++ <<"gauge", "oil_temp">>
        ++ <<"gauge", "fuel_pressure">>
        ++ <<"gauge", "fuel_rate">>
        ++ <<"gauge", "intake_pressure">>
        ++ <<"maf", "maf">>
        ++ <<"since", "dist_since_dtc_cleared">>

\* The statements of update_data (obd_dashboard_gui_backup.py) in program
\* order: the locals are read page by page.
UpdateBackup(s0, v, sim, cmds, inp) ==
    LET st ++ step == Step(st, v, sim, cmds, inp, step[1], step[2])
    IN  s0
        ++ <<"sample", "speed">>
        ++ <<"sample", "rpm">>
        ++ <<"sample", "throttle_pos">>
        ++ <<"sample", "eng_load">>
        ++ <<"sample", "timing_advance">>
        ++ <<"gauge", "speed">>
        ++ <<"gauge", "rpm">>
        ++ <<"gauge", "throttle_pos">>
        ++ <<"load", "eng_load">>
        ++ <<"timing", "timing_advance">>
        ++ <<"runtime", "run_time">>
        ++ <<"sample", "coolant_temp">>
        ++ <<"sample", "intake_temp">>
        ++ <<"sample", "oil_temp">>
        ++ <<"gauge", "coolant_temp">>
        ++ <<"gauge", "intake_temp">>
        ++ <<"gauge", "oil_temp">>
        ++ <<"sample", "fuel_pressure">>
        ++ <<"sample", "fuel_rate">>
        ++ <<"sample", "intake_pressure">>
        ++ <<"sample", "maf">>
        ++ <<"sample", "max_maf">>
        ++ <<"gauge", "fuel_pressure">>
        ++ <<"gauge", "fuel_rate">>
        ++ <<"gauge", "intake_pressure">>
        ++ <<"maf", "maf">>
        ++ <<"since", "dist_since_dtc_cleared">>

\* OBDDashboard._update / _update_data / update_data, start to end or to the
\* statement that raises
UpdateBody(gs, ls, rt, dd, td, v, sim, cmds, inp) ==
    IF v = "qt_backup"
    THEN UpdateBackup(TickStart(gs, ls, rt, dd, td), v, sim, cmds, inp)
    ELSE UpdateMain(TickStart(gs, ls, rt, dd, td), v, sim, cmds, inp)

\* ------------------------------------------------------------ tick inputs
\* how many simulated ticks a run explores
MaxTicks == 4

\* how many callbacks may wait in the tk event queue
MaxQueue == 2

\* the bounds of the simulated draws: randint(lo, hi) / uniform(lo, hi)
SimRange ==
    [speed           |-> <<Fx(0), Fx(180)>>,
     rpm             |-> <<Fx(800), Fx(7000)>>,
     throttle_pos    |-> <<Fx(0), Fx(100)>>,
     eng_load        |-> <<Fx(10), Fx(95)>>,
     timing_advance  |-> <<Fx(-10), Fx(45)>>,
     coolant_temp    |-> <<Fx(70), Fx(105)>>,
     intake_temp     |-> <<Fx(15), Fx(45)>>,
     oil_temp        |-> <<Fx(80), Fx(120)>>,
     fuel_pressure   |-> <<Fx(250), Fx(550)>>,
     fuel_rate       |-> <<5, Fx(25)>>,
     intake_pressure |-> <<Fx(30), Fx(120)>>,
     maf             |-> <<Fx(2), Fx(95)>>,
     max_maf         |-> <<Fx(255), Fx(255)>>]

SimMetrics == DOMAIN SimRange \ {"intake_pressure"}

\* The simulated draws explored: every metric at its lower bound or every
\* metric at its upper bound; the distance increment is 0.01 or 0.05 km.
SimDrawWide(which) ==
    [m \in SimMetrics |->
        IF which = "lo" THEN SimRange[m][1] - 1 ELSE SimRange[m][2] + 1]

SimDraw(which) ==
    [m \in SimMetrics |->
        IF which = "lo" THEN SimRange[m][1] ELSE SimRange[m][2]]

NoResp == [m \in LiveMetrics |-> Resp("null", 0)]

SimInputs ==
    {[sim  |-> SimDraw(w),
      ip   |-> IF w = "hi" THEN SimRange["intake_pressure"][2]
               ELSE SimRange["intake_pressure"][1],
      dinc |-> d,
      resp |-> NoResp] : w \in {"lo", "hi"}, d \in {1, 5}}

\* The adapter's answers explored in Live mode.  Profile "A" is a car at
\* cruise, "lo" every reading 100 below its gauge's minimum, "hi" every
\* reading 100 above its gauge's maximum.
ProfileA ==
    [speed          |-> Fx(50),  rpm          |-> Fx(3000),
     throttle_pos   |-> Fx(20),  eng_load     |-> Fx(40),
     timing_advance |-> 105,     coolant_temp |-> Fx(85),
     intake_temp    |-> Fx(30),  oil_temp     |-> Fx(95),
     fuel_pressure  |-> Fx(350), fuel_rate    |-> 75,
     maf            |-> Fx(12),  max_maf      |-> Fx(255)]

GaugeMetrics == DOMAIN GaugeOf \ {"intake_pressure"}

Profile(which) ==
    [m \in DOMAIN ProfileA |->
        CASE which = "A"  -> ProfileA[m]
          [] which = "lo" -> IF m \in GaugeMetrics
                             THEN GaugeSpec[GaugeOf[m]].min_val - Fx(100)
                             ELSE IF m = "max_maf" THEN 0 ELSE -Fx(100)
          [] which = "hi" -> IF m \in GaugeMetrics
                             THEN GaugeSpec[GaugeOf[m]].max_val + Fx(100)
                             ELSE IF m = "max_maf" THEN -Fx(1) ELSE Fx(100)]

\* the queried (run_time, dist_since_dtc_cleared, time_since_dtc_cleared)
AccTriples ==
    {<<Fx(12), Km(12), Fx(12)>>, <<0, 0, 0>>, <<-Fx(1), -Km(1), -Fx(1)>>,
     <<Fx(15), Km(15), Fx(15)>>, <<Fx(15), Km(12), 0>>, <<0, Km(15), Fx(12)>>}

Answers(which, acc) ==
    [m \in LiveMetrics |->
        CASE m = "run_time"               -> Resp("val", acc[1])
          [] m = "dist_since_dtc_cleared" -> Resp("val", acc[2])
          [] m = "time_since_dtc_cleared" -> Resp("val", acc[3])
          [] OTHER                        -> Resp("val", Profile(which)[m])]

LiveInput(resp, ip) ==
    [sim |-> SimDraw("lo"), ip |-> ip, dinc |-> 0, resp |-> resp]

\* every query answered: profile A under each triple, and the other profiles
LiveInputs ==
    {LiveInput(Answers("A", acc), Fx(75)) : acc \in AccTriples}
    \cup {LiveInput(Answers(w, <<Fx(12), Km(12), Fx(12)>>),
                    IF w = "hi" THEN Fx(120) ELSE Fx(30)) : w \in {"lo", "hi"}}

\* profile A with no query failing, or with the query of exactly one metric
\* raising or answering null
FaultInputs ==
    {LiveInput(Answers("A", <<Fx(15), Km(15), Fx(15)>>), Fx(75))}
    \cup {LiveInput([Answers("A", <<Fx(15), Km(15), Fx(15)>>) EXCEPT ![m] = Resp(k, 0)],
                    Fx(75)) : m \in LiveMetrics, k \in {"null", "raise"}}

\* the catalogs load_commands may return: every key, or every key but one
Catalogs == {AllCommands} \cup {AllCommands \ {c} : c \in AllCommands}

\* the catalogs explored together with the trouble-code actions
CoreCatalogs ==
    {AllCommands} \cup
    {AllCommands \ {c} : c \in {"get_dtc", "clear_dtc"}}

\* ---------------------------------------------------------------- startup
\* What start-up can meet: importing obd / read_json fails, obd.OBD(...)
\* raises, the adapter object comes back unconnected, or it connects.
ConnectOutcomes == {"import_error", "connect_raises", "not_connected", "connected"}

\* initialize_obd_connection(): the global it leaves, whether it tried to
\* connect, and its return value
initialize_obd_connection(conn) ==
    [obd_connection |-> CASE conn = "connected"     -> "connected"
                          [] conn = "not_connected" -> "unconnected"
                          [] OTHER                  -> "None",
     tried          |-> conn # "import_error",
     ok             |-> conn = "connected"]

\* read_json.load_commands(): the catalog's keys, or an exception (no file,
\* malformed JSON, a name obd.commands does not have)
CatalogOutcomes(cats) ==
    {[ok |-> TRUE, keys |-> k] : k \in cats} \cup {[ok |-> FALSE, keys |-> {}]}

\* OBDDashboard.__init__, mode selection: sim_arg is the constructor's
\* argument, conn and cat what the connection and the catalog load meet
ConstructKeepLive(sim_arg, conn, cat) ==
    IF sim_arg
    THEN [use_sim |-> TRUE, commands |-> {}, obd_connection |-> "None", tries |-> 0]
    ELSE LET c == initialize_obd_connection(conn)
         IN  [use_sim        |-> FALSE,
              commands       |-> IF c.ok /\ cat.ok THEN cat.keys ELSE {},
              obd_connection |-> c.obd_connection,
              tries          |-> IF c.tried THEN 1 ELSE 0]

ConstructAlwaysConnect(sim_arg, conn, cat) ==
    LET c == initialize_obd_connection(conn)
    IN  [use_sim        |-> sim_arg \/ ~c.ok \/ ~cat.ok,
         commands       |-> IF c.ok /\ cat.ok THEN cat.keys ELSE {},
         obd_connection |-> c.obd_connection,
         tries          |-> IF c.tried THEN 1 ELSE 0]

Construct(sim_arg, conn, cat) ==
    IF sim_arg
    THEN [use_sim |-> TRUE, commands |-> {}, obd_connection |-> "None", tries |-> 0]
    ELSE LET c == initialize_obd_connection(conn)
         IN  IF c.ok
             THEN [use_sim        |-> ~cat.ok,
                   commands       |-> cat.keys,
                   obd_connection |-> c.obd_connection,
                   tries          |-> 1]
             ELSE [use_sim        |-> TRUE,
                   commands       |-> {},
                   obd_connection |-> c.obd_connection,
                   tries          |-> IF c.tried THEN 1 ELSE 0]

\* OBDDashboard._switch(idx) / _switch_page(index): the page shown afterwards
\* (dashboard.py returns early when idx is already the current page)
_switch(page, idx) == IF idx = page THEN page ELSE idx

\* a callback posted with self.after(0, fn): fn is "update" (self._update)
\* or "switch" (lambda: self._switch(arg))
Callback(fn, arg) == [fn |-> fn, arg |-> arg]

\* What is remembered of the most recent handler the UI thread ran:
\*   op        "none", "tick", "get_dtc" or "clear_dtc"
\*   raised    the handler ended in an uncaught exception
\*   confirmed the user answered yes to the clear dialog
\*   notice    the message box it showed: "none", "info_ok" (no trouble
\*             codes, status OK), "warning_codes", "info_cleared", "error"
\*   codes     the trouble codes it listed
\*   q         what happened to its trouble-code query: "none" (no query was
\*             made), "unavailable" (the catalog lacks the command), or
\*             the tag of the adapter's answer
Handler(op, raised, confirmed, notice, codes, q) ==
    [op |-> op, raised |-> raised, confirmed |-> confirmed, notice |-> notice,
     codes |-> codes, q |-> q]

NoHandler == Handler("none", FALSE, FALSE, "none", <<>>, "none")

Init ==
    /\ variant \in Variants
    /\ argv_real \in BOOLEAN
    /\ phase = "boot"
    /\ use_sim = TRUE
    /\ commands = {}
    /\ obd_connection = "None"
    /\ connects = 0
    /\ runtime = 0
    /\ dist_dtc = 0
    /\ time_dtc = 0
    /\ gauges = [g \in GaugeNames |-> NewGauge(variant, GaugeSpec[g])]
    /\ labels = NewLabels
    /\ snap = [m \in Metrics |-> NoRead]
    /\ issued = <<>>
    /\ done = NoHandler
    /\ _running = FALSE
    /\ thread_pc = "none"
    /\ queue = <<>>
    /\ current_page = -1
    /\ presses = 0

\* __main__ / main(): use_sim = "--real" not in sys.argv; the constructor
\* picks the mode, zeroes the accumulators, builds the pages and starts the
\* refresh (tk: the background thread; qt: the timer)
Startup(cats) ==
    /\ phase = "boot"
    /\ \E conn \in ConnectOutcomes, cat \in CatalogOutcomes(cats) :
         LET c == Construct(~argv_real, conn, cat)
         IN  /\ use_sim' = c.use_sim
             /\ commands' = c.commands
             /\ obd_connection' = c.obd_connection
             /\ connects' = connects + c.tries
    /\ runtime' = 0
    /\ dist_dtc' = 0
    /\ time_dtc' = 0
    /\ phase' = "running"
    /\ _running' = (variant = "tk")
    /\ thread_pc' = IF variant = "tk" THEN "check" ELSE "none"
    /\ gauges' = [g \in GaugeNames |-> NewGauge(variant, GaugeSpec[g])]
    /\ labels' = NewLabels
    /\ current_page' = _switch(current_page, 0)
    /\ UNCHANGED <<presses, variant, argv_real, snap, issued, done, queue>>

\* ------------------------------------------------------------ the refresh
\* the inputs one tick can meet in the mode the session runs in; simulated
\* ticks stop after MaxTicks
TickInputs(simI, liveI) ==
    IF use_sim
    THEN IF runtime < MaxTicks THEN simI ELSE {}
    ELSE liveI

\* the effect of one _update / _update_data call on the dashboard
RunUpdate(inp) ==
    \E st \in {UpdateBody(gauges, labels, runtime, dist_dtc, time_dtc,
                          variant, use_sim, commands, inp)} :
        /\ gauges' = st.gauges
        /\ labels' = st.labels
        /\ runtime' = st.runtime
        /\ dist_dtc' = st.dist_dtc
        /\ time_dtc' = st.time_dtc
        /\ snap' = st.snap
        /\ issued' = st.issued
        /\ done' = Handler("tick", st.raised, FALSE, "none", <<>>, "none")

\* tk, the background thread's loop, one step of it from pc:
\*   "check"  while self._running: go on to post, or leave the loop
\*   "post"   self.after(0, self._update) then time.sleep(0.3); after()
\*            raises once the window is destroyed (alive is false) and the
\*            bare except leaves the loop
updateForever(pc, running, alive) ==
    [pc |-> IF pc = "check" THEN "post" ELSE "check", posted |-> pc = "post" /\ alive]

update(pc, running, alive) ==
    IF pc = "check"
    THEN [pc |-> IF running THEN "post" ELSE "exit", posted |-> FALSE]
    ELSE [pc |-> IF alive THEN "check" ELSE "exit", posted |-> alive]

\* tk, background thread: "while self._running"
ThreadCheck ==
    /\ variant = "tk"
    /\ phase \in {"running", "destroyed"}
    /\ thread_pc = "check"
    /\ thread_pc' = update("check", _running, phase = "running").pc
    /\ UNCHANGED <<current_page, presses, variant, phase, argv_real, use_sim, commands, obd_connection,
                   connects, runtime, dist_dtc, time_dtc, gauges, labels, snap,
                   issued, done, _running, queue>>

\* a loop that calls self._update() on the background thread itself
ThreadPostDirect ==
    /\ variant = "tk"
    /\ phase = "running"
    /\ thread_pc = "post"
    /\ \E inp \in TickInputs(SimInputs, LiveInputs) : RunUpdate(inp)
    /\ thread_pc' = "check"
    /\ UNCHANGED <<current_page, presses, variant, phase, argv_real, use_sim,
                   commands, obd_connection, connects, _running, queue>>

\* tk, background thread: self.after(0, self._update); time.sleep(0.3)
ThreadPost ==
    /\ variant = "tk"
    /\ phase \in {"running", "destroyed"}
    /\ thread_pc = "post"
    /\ \E u \in {update("post", _running, phase = "running")} :
         /\ u.posted => Len(queue) < MaxQueue
         /\ queue' = IF u.posted THEN Append(queue, Callback("update", 0))
                     ELSE queue
         /\ thread_pc' = u.pc
    /\ UNCHANGED <<current_page, presses, variant, phase, argv_real, use_sim, commands, obd_connection,
                   connects, runtime, dist_dtc, time_dtc, gauges, labels, snap,
                   issued, done, _running>>

\* tk, UI thread: the event loop runs the posted _update.  An exception of
\* the callback goes to Tk's report_callback_exception, which prints it;
\* the event loop and the posting thread go on.
RunCallback(simI, liveI) ==
    /\ variant = "tk"
    /\ phase = "running"
    /\ queue # <<>>
    /\ Head(queue).fn = "update"
    /\ \E inp \in TickInputs(simI, liveI) : RunUpdate(inp)
    /\ queue' = Tail(queue)
    /\ UNCHANGED <<current_page, presses, variant, phase, argv_real, use_sim, commands, obd_connection,
                   connects, _running, thread_pc>>

\* qt: the QTimer's timeout runs _update_data as a slot.  Nothing in the
\* program catches an exception of the slot or installs an excepthook, so
\* what follows is PyQt's choice: print it and go on, or abort the process.
TimerFire(simI, liveI) ==
    /\ variant # "tk"
    /\ phase = "running"
    /\ \E inp \in TickInputs(simI, liveI) :
         /\ RunUpdate(inp)
         /\ IF done'.raised
            THEN phase' \in {"running", "aborted"}
            ELSE phase' = phase
    /\ UNCHANGED <<current_page, presses, variant, argv_real, use_sim, commands, obd_connection,
                   connects, _running, thread_pc, queue>>

\* ---------------------------------------------------------- trouble codes
\* the adapter's answers to the get_dtc / clear_dtc query that are explored
DtcAnswers ==
    {Resp("raise", <<>>), Resp("null", <<>>), Resp("val", <<>>),
     Resp("val", <<"P0300", "P0171">>)}

\* the simulated draws random.sample(codes, random.randint(0, 3)) explored
\* together with the refresh and the clear action
SimDtcDraws == {<<>>, <<"P0420">>, <<"C0035", "P0101", "P0420">>}

\* the population the simulated read samples from
DtcCodes == {"P0420", "P0171", "P0101", "P0300", "C0035"}

\* random.randint(0, 3)
SampleSizes == 0..3

\* random.choices(pop, k=k): k draws with replacement
RandomChoices(pop, k) == [1..k -> pop]

\* random.sample(pop, k): k draws without replacement, in any order
RandomSample(pop, k) ==
    {c \in [1..k -> pop] : \A i, j \in 1..k : c[i] = c[j] => i = j}

\* every outcome of random.sample(codes, random.randint(0, 3))
AllSimDtcDraws == UNION {RandomSample(DtcCodes, k) : k \in SampleSizes}

\* The Live lookup of a trouble-code command.  dashboard.py uses
\* self.commands.get(name): a missing name queries the adapter with None,
\* which yields no value.  The Qt variants use self.commands[name]: a
\* missing name raises KeyError before any query.
\*   looked  the lookup did not raise
\*   issued  the queries made
\*   result  what read_obd_data returned
\*   q       what happened to the query
DtcQuery(v, cmds, name, r) ==
    IF name \in cmds
    THEN [looked |-> TRUE, issued |-> <<name>>, result |-> read_obd_data(r),
          q |-> r.tag]
    ELSE IF v = "tk"
    THEN [looked |-> TRUE, issued |-> <<"None">>, result |-> None,
          q |-> "unavailable"]
    ELSE [looked |-> FALSE, issued |-> <<>>, result |-> None,
          q |-> "unavailable"]

\* _get_dtc / _get_dtc_codes / get_dtc_codes: the queries made and the
\* notice shown.  draw is the simulated sample, r the adapter's answer.
GetDtc(v, sim, cmds, draw, r) ==
    IF sim
    THEN [issued |-> <<>>,
          notice |-> IF draw = <<>> THEN "info_ok" ELSE "warning_codes",
          codes  |-> draw, q |-> "none"]
    ELSE LET q == DtcQuery(v, cmds, "get_dtc", r)
         IN  IF ~q.looked
             THEN [issued |-> q.issued, notice |-> "error", codes |-> <<>>,
                   q |-> q.q]
             ELSE IF q.result = None \/ q.result[1] = <<>>
             THEN [issued |-> q.issued, notice |-> "info_ok", codes |-> <<>>,
                   q |-> q.q]
             ELSE [issued |-> q.issued, notice |-> "warning_codes",
                   codes |-> q.result[1], q |-> q.q]

\* _clear_dtc / _clear_dtc_codes / clear_dtc_codes: whether the two
\* since-clear accumulators are reset, the queries made, the notice shown
ClearDtcResetAll(v, sim, cmds, confirm, r) ==
    [reset |-> TRUE, issued |-> <<>>, notice |-> "info_cleared", q |-> "none"]

\* a clear that does not wait for the answer to the dialog
ClearDtcNoAsk(v, sim, cmds, confirm, r) ==
    IF sim
    THEN [reset |-> TRUE, issued |-> <<>>, notice |-> "info_cleared",
          q |-> "none"]
    ELSE LET q == DtcQuery(v, cmds, "clear_dtc", r)
         IN  IF q.looked
             THEN [reset |-> TRUE, issued |-> q.issued,
                   notice |-> "info_cleared", q |-> q.q]
             ELSE [reset |-> FALSE, issued |-> q.issued, notice |-> "error",
                   q |-> q.q]

ClearDtc(v, sim, cmds, confirm, r) ==
    IF ~confirm
    THEN [reset |-> FALSE, issued |-> <<>>, notice |-> "none", q |-> "none"]
    ELSE IF sim
    THEN [reset |-> TRUE, issued |-> <<>>, notice |-> "info_cleared",
          q |-> "none"]
    ELSE LET q == DtcQuery(v, cmds, "clear_dtc", r)
         IN  IF q.looked
             THEN [reset |-> TRUE, issued |-> q.issued,
                   notice |-> "info_cleared", q |-> q.q]
             ELSE [reset |-> FALSE, issued |-> q.issued, notice |-> "error",
                   q |-> q.q]

\* the user presses "read trouble codes"; only the simulated branch draws a
\* sample and only the Live branch meets an answer of the adapter
GetDtcClick(draws) ==
    /\ phase = "running"
    /\ \E draw \in IF use_sim THEN draws ELSE {<<>>},
          r \in IF use_sim THEN {Resp("null", <<>>)} ELSE DtcAnswers :
         LET o == GetDtc(variant, use_sim, commands, draw, r)
         IN  /\ issued' = o.issued
             /\ done' = Handler("get_dtc", FALSE, FALSE, o.notice, o.codes, o.q)
    /\ UNCHANGED <<current_page, presses, variant, phase, argv_real, use_sim, commands, obd_connection,
                   connects, runtime, dist_dtc, time_dtc, gauges, labels, snap,
                   _running, thread_pc, queue>>

\* the user presses "clear trouble codes" and answers the dialog
ClearDtcClick ==
    /\ phase = "running"
    /\ \E confirm \in BOOLEAN, r \in DtcAnswers :
         LET o == ClearDtc(variant, use_sim, commands, confirm, r)
         IN  /\ dist_dtc' = IF o.reset THEN 0 ELSE dist_dtc
             /\ time_dtc' = IF o.reset THEN 0 ELSE time_dtc
             /\ issued' = o.issued
             /\ done' = Handler("clear_dtc", FALSE, confirm, o.notice, <<>>, o.q)
    /\ UNCHANGED <<current_page, presses, variant, phase, argv_real, use_sim, commands, obd_connection,
                   connects, runtime, gauges, labels, snap, _running, thread_pc,
                   queue>>

\* ------------------------------------------------------- a gauge on its own
\* the gauges and the arguments explored by direct set_value calls: 100
\* outside either end of the range, both ends, and 50.0, 50.3, 50.5, 50.6
DrivenGauges == {"speed", "coolant"}

RawValues(sp) ==
    {sp.min_val - Fx(100), sp.min_val, Fx(50), 503, 505, 506,
     sp.max_val, sp.max_val + Fx(100)}

\* gauge.set_value(raw), called on one gauge of the running dashboard
SetValueCall ==
    /\ phase = "running"
    /\ \E g \in DrivenGauges :
         \E raw \in RawValues(GaugeSpec[g]) :
            gauges' = [gauges EXCEPT ![g] = SetValue(variant, GaugeSpec[g], @, raw)]
    /\ UNCHANGED <<current_page, presses, variant, phase, argv_real, use_sim, commands, obd_connection,
                   connects, runtime, dist_dtc, time_dtc, labels, snap, issued,
                   done, _running, thread_pc, queue>>

\* ------------------------------------------------- pages and the lifecycle
\* len(self.pages): vehicle, engine, fuel, diagnostics
NumPages == 4

\* the presses of the GPIO button explored
MaxPresses == 3

\* tk, gpiozero's thread: Button(17).when_pressed = self._gpio_next_page.
\* It reads current_page, computes the next page and posts the switch.
GpioPress ==
    /\ variant = "tk"
    /\ phase = "running"
    /\ presses < MaxPresses
    /\ Len(queue) < MaxQueue
    /\ presses' = presses + 1
    /\ queue' = Append(queue, Callback("switch", (current_page + 1) % NumPages))
    /\ UNCHANGED <<current_page, variant, phase, argv_real, use_sim, commands,
                   obd_connection, connects, runtime, dist_dtc, time_dtc,
                   gauges, labels, snap, issued, done, _running, thread_pc>>

\* tk, UI thread: the event loop runs a posted lambda: self._switch(next_page)
RunSwitch ==
    /\ variant = "tk"
    /\ phase = "running"
    /\ queue # <<>>
    /\ Head(queue).fn = "switch"
    /\ current_page' = _switch(current_page, Head(queue).arg)
    /\ queue' = Tail(queue)
    /\ UNCHANGED <<presses, variant, phase, argv_real, use_sim, commands,
                   obd_connection, connects, runtime, dist_dtc, time_dtc,
                   gauges, labels, snap, issued, done, _running, thread_pc>>

\* The window is closed.  tk: OBDDashboard.destroy() clears the stop flag,
\* closes the GPIO button and destroys the window, so the posted callbacks
\* are dropped.  qt: no closeEvent is defined; app.exec_() returns and
\* main() passes its result to sys.exit.  No variant touches the adapter
\* connection on the way out.
destroy(v, running, pending, conn) ==
    [_running |-> IF v = "tk" THEN FALSE ELSE running,
     queue |-> <<>>,
     obd_connection |-> conn]

Destroy ==
    /\ phase = "running"
    /\ \E d \in {destroy(variant, _running, queue, obd_connection)} :
         /\ _running' = d._running
         /\ queue' = d.queue
         /\ obd_connection' = d.obd_connection
    /\ phase' = "destroyed"
    /\ UNCHANGED <<current_page, presses, variant, argv_real, use_sim, commands,
                   connects, runtime, dist_dtc, time_dtc, gauges, labels, snap,
                   issued, done, thread_pc>>

\* A Live tick whose first query, self._read('speed', 0), never returns.
\* The tick is the posted callback (tk) or the timer's slot (qt), so the
\* one UI thread stays inside obd_connection.query(): phase "blocked".  The
\* tk background thread's next after() is served by that same thread.
QueryHangs ==
    /\ phase = "running"
    /\ ~use_sim
    /\ "speed" \in commands
    /\ (variant = "tk" => (queue # <<>> /\ Head(queue).fn = "update"))
    /\ queue' = IF variant = "tk" THEN Tail(queue) ELSE queue
    /\ phase' = "blocked"
    /\ UNCHANGED <<current_page, presses, variant, argv_real, use_sim, commands,
                   obd_connection, connects, runtime, dist_dtc, time_dtc,
                   gauges, labels, snap, issued, done, _running, thread_pc>>

\* what the UI thread does for the user when it is free to: a page switch
\* posted by the button, a trouble-code action, the closing of the window
UiEvent ==
    \/ RunSwitch
    \/ GetDtcClick(SimDtcDraws)
    \/ ClearDtcClick
    \/ Destroy

\* ---------------------------------------------------------- specification
\* the whole program: start-up, the refresh, the trouble-code actions
Next ==
    \/ Startup(CoreCatalogs)
    \/ ThreadCheck
    \/ ThreadPost
    \/ RunCallback(SimInputs, LiveInputs)
    \/ TimerFire(SimInputs, LiveInputs)
    \/ GetDtcClick(SimDtcDraws)
    \/ ClearDtcClick

Spec == Init /\ [][Next]_vars

\* the refresh under single-metric read failures and every catalog
NextFaults ==
    \/ Startup(Catalogs)
    \/ ThreadCheck
    \/ ThreadPost
    \/ RunCallback(SimInputs, FaultInputs)
    \/ TimerFire(SimInputs, FaultInputs)

SpecFaults == Init /\ [][NextFaults]_vars

\* the refresh, the page button and the closing of the window.  The
\* background thread is a running OS thread whose sleep ends: each of its
\* two steps is taken if it stays enabled.
LifeLive == {LiveInput(Answers("A", <<Fx(12), Km(12), Fx(12)>>), Fx(75))}

NextLife ==
    \/ Startup({AllCommands})
    \/ ThreadCheck
    \/ ThreadPost
    \/ RunCallback(SimInputs, LifeLive)
    \/ RunSwitch
    \/ TimerFire(SimInputs, LifeLive)
    \/ GpioPress
    \/ Destroy
    \/ QueryHangs

SpecLife ==
    Init /\ [][NextLife]_vars /\ WF_vars(ThreadCheck) /\ WF_vars(ThreadPost)

\* the refresh and the reading of trouble codes, with every simulated sample
\* (the simulated tick draws every metric at its lower bound)
LowSim == {i \in SimInputs : i.sim = SimDraw("lo") /\ i.dinc = 1}

NextDtc ==
    \/ Startup({AllCommands})
    \/ ThreadCheck
    \/ ThreadPost
    \/ RunCallback(LowSim, LifeLive)
    \/ TimerFire(LowSim, LifeLive)
    \/ GetDtcClick(AllSimDtcDraws)

SpecDtc == Init /\ [][NextDtc]_vars

\* the refresh alone, the simulated distance increment drawn from 0.01,
\* 0.02, ..., 0.05 km; nothing clears the accumulators
StepSim == {[i EXCEPT !.dinc = d] : i \in LowSim, d \in 1..5}

NextSim ==
    \/ Startup({AllCommands})
    \/ ThreadCheck
    \/ ThreadPost
    \/ RunCallback(StepSim, LifeLive)
    \/ TimerFire(StepSim, LifeLive)

SpecSim == Init /\ [][NextSim]_vars

\* the refresh with run times around the minute, the hour, the day and
\* one hundred hours (in tenths of a second)
ClockTimes == {9, 599, 600, 35999, 36000, 863999, 900610, 3600000}

ClockLive ==
    {LiveInput(Answers("A", <<t, Km(12), u>>), Fx(75)) :
        t \in ClockTimes, u \in {599, 900610, 3600000}}

NextClock ==
    \/ Startup({AllCommands})
    \/ ThreadCheck
    \/ ThreadPost
    \/ RunCallback(LowSim, ClockLive)
    \/ TimerFire(LowSim, ClockLive)

SpecClock == Init /\ [][NextClock]_vars

\* the gauges driven by direct set_value calls
NextGauge ==
    \/ Startup(CoreCatalogs)
    \/ SetValueCall

SpecGauge == Init /\ [][NextGauge]_vars

\* ------------------------------------------------------------ properties
\* C1, as stated: every step leaves each of the three accumulators greater
\* than or equal to its previous value, except a confirmed clear, which may
\* lower only the distance and the time since clear, to 0.
C1_AccumulatorsNeverDecrease ==
    [][/\ runtime' >= runtime
       /\ \/ dist_dtc' >= dist_dtc
          \/ done'.op = "clear_dtc" /\ done'.confirmed /\ dist_dtc' = 0
       /\ \/ time_dtc' >= time_dtc
          \/ done'.op = "clear_dtc" /\ done'.confirmed /\ time_dtc' = 0]_vars

\* C1, amended: an accumulator is lowered only (a) by a confirmed clear,
\* which lowers the distance and the time since clear to 0 and never the run
\* time, or (b) by a Live tick whose query for that accumulator answered a
\* strictly positive value, which the accumulator then equals.  No simulated
\* tick and no other step lowers an accumulator.
C1_LoweredOnlyByClearOrPositiveRead ==
    [][/\ runtime' < runtime =>
            /\ ~use_sim /\ done'.op = "tick"
            /\ snap'["run_time"] = [q |-> "val", out |-> <<runtime'>>]
            /\ runtime' > 0
       /\ dist_dtc' < dist_dtc =>
            \/ done'.op = "clear_dtc" /\ done'.confirmed /\ dist_dtc' = 0
            \/ /\ ~use_sim /\ done'.op = "tick"
               /\ snap'["dist_since_dtc_cleared"] =
                      [q |-> "val", out |-> <<dist_dtc'>>]
               /\ dist_dtc' > 0
       /\ time_dtc' < time_dtc =>
            \/ done'.op = "clear_dtc" /\ done'.confirmed /\ time_dtc' = 0
            \/ /\ ~use_sim /\ done'.op = "tick"
               /\ snap'["time_since_dtc_cleared"] =
                      [q |-> "val", out |-> <<time_dtc'>>]
               /\ time_dtc' > 0]_vars

\* C1, witness: a Live tick has just overwritten the distance with a queried
\* 12 km while the time since clear still stands at the 15 s that only the
\* all-15 answer sets, so the distance stood at 15 km before and was lowered.
C1_LoweredByTick ==
    /\ ~use_sim /\ done.op = "tick"
    /\ snap["dist_since_dtc_cleared"] = [q |-> "val", out |-> <<Km(12)>>]
    /\ snap["time_since_dtc_cleared"] = [q |-> "val", out |-> <<0>>]
    /\ dist_dtc = Km(12)
    /\ time_dtc = Fx(15)

C3_ConfirmedClearResets ==
    [][(done'.op = "clear_dtc" /\ done'.confirmed) =>
        /\ dist_dtc' = 0
        /\ time_dtc' = 0
        /\ runtime' = runtime
        /\ use_sim' = use_sim
        /\ \A g \in GaugeNames : gauges'[g].value = gauges[g].value]_vars

\* C4, as stated: in every variant a set_value(raw) call on a gauge, with
\* c = clamp(raw), stores c as displayed and last drawn value and redraws
\* exactly once when nothing was drawn before or |c - last drawn| > 0.5, and
\* otherwise changes neither value and does not redraw.
C4_SetValueCoalesces ==
    [][\A g \in GaugeNames :
         gauges'[g] # gauges[g] =>
           LET sp == GaugeSpec[g]
               raw == gauges'[g].arg[1]
               c == IF raw < sp.min_val THEN sp.min_val
                    ELSE IF raw > sp.max_val THEN sp.max_val ELSE raw
               far == \/ gauges[g].last = <<>>
                      \/ c - gauges[g].last[1] > 5
                      \/ gauges[g].last[1] - c > 5
           IN  IF far
               THEN /\ gauges'[g].value = c
                    /\ gauges'[g].last = <<c>>
                    /\ gauges'[g].redraws = 1
               ELSE /\ gauges'[g].value = gauges[g].value
                    /\ gauges'[g].last = gauges[g].last
                    /\ gauges'[g].redraws = 0]_vars

\* C5: whatever set_value was given, from 100 below the minimum to 100 above
\* the maximum, the geometry drawn for every gauge has a ratio in [0, 1], an
\* active arc of at most 270 degrees and a needle within [-45, 225] degrees.
C5_GeometryWithinArc ==
    \A g \in GaugeNames :
        LET geo == Geometry(variant, GaugeSpec[g], gauges[g].value)
        IN  /\ geo.den > 0
            /\ 0 <= geo.num /\ geo.num <= geo.den
            /\ geo.extent16 <= 270 * 16 * geo.den
            /\ -geo.extent16 <= 270 * 16 * geo.den
            /\ -45 * geo.den <= geo.needle
            /\ geo.needle <= 225 * geo.den

\* C5, witness: the rpm gauge was handed 8100 and the coolant gauge was
\* handed 220, each 100 above its maximum, and both show their maximum.
C5_OutOfRangeDrawn ==
    /\ gauges["rpm"].arg = <<Fx(8100)>>
    /\ gauges["rpm"].value = Fx(8000)
    /\ gauges["coolant"].arg = <<Fx(220)>>
    /\ gauges["coolant"].value = Fx(120)

\* C6: in Live mode, when the query of a metric raised or answered null, the
\* value the tick uses for it is the metric's fixed default (speed 0, rpm 0,
\* throttle 0, load 0, timing 0, coolant 80, intake 25, oil 90, fuel pressure
\* 300, fuel rate 5, maf 10, max maf 255, run time 0, distance 0, time 0),
\* and that is what the metric's gauge is handed when the tick completes.
C6_FailedReadYieldsDefault ==
    LET dflt == [speed                  |-> 0,
                 rpm                    |-> 0,
                 throttle_pos           |-> 0,
                 eng_load               |-> 0,
                 timing_advance         |-> 0,
                 coolant_temp           |-> 800,
                 intake_temp            |-> 250,
                 oil_temp               |-> 900,
                 fuel_pressure          |-> 3000,
                 fuel_rate              |-> 50,
                 maf                    |-> 100,
                 max_maf                |-> 2550,
                 run_time               |-> 0,
                 dist_since_dtc_cleared |-> 0,
                 time_since_dtc_cleared |-> 0]
    IN  /\ DOMAIN dflt = LiveMetrics
        /\ \A m \in DOMAIN dflt :
             snap[m].q \in {"null", "raise"} =>
               /\ snap[m].out = <<dflt[m]>>
               /\ (m \in DOMAIN GaugeOf /\ ~done.raised)
                      => gauges[GaugeOf[m]].arg = <<dflt[m]>>

\* C6, witness: the coolant query raised and the tick, which completed, handed
\* the coolant gauge 80.
C6_CoolantRaisedDefault ==
    /\ ~use_sim /\ done.op = "tick" /\ ~done.raised
    /\ snap["coolant_temp"].q = "raise"
    /\ gauges["coolant"].arg = <<800>>
    /\ gauges["coolant"].value = 800

\* C7, as stated: a Live tick in which at most one metric's read fails (its
\* query raises or answers null, or its name is missing from the catalog)
\* runs to completion, hands every gauge its local and sets the load, timing
\* and MAF labels and the accumulators from the values read.
C7_SingleFailureIsolated ==
    (/\ ~use_sim /\ done.op = "tick"
     /\ Cardinality({m \in LiveMetrics :
                        m \notin commands \/ snap[m].q \in {"null", "raise"}}) <= 1) =>
        /\ ~done.raised
        /\ \A m \in DOMAIN GaugeOf :
             snap[m].out # <<>> /\ gauges[GaugeOf[m]].arg = snap[m].out
        /\ <<labels.load_bar>> = snap["eng_load"].out
        /\ <<labels.timing>> = snap["timing_advance"].out
        /\ <<labels.maf>> = snap["maf"].out
        /\ <<labels.max_maf>> = snap["max_maf"].out
        /\ snap["run_time"].q = "val" /\ snap["run_time"].out[1] > 0
               => <<runtime>> = snap["run_time"].out
        /\ snap["dist_since_dtc_cleared"].q = "val"
             /\ snap["dist_since_dtc_cleared"].out[1] > 0
               => <<dist_dtc>> = snap["dist_since_dtc_cleared"].out
        /\ snap["time_since_dtc_cleared"].q = "val"
             /\ snap["time_since_dtc_cleared"].out[1] > 0
               => <<time_dtc>> = snap["time_since_dtc_cleared"].out

\* C8: with --real, a failed connection (not connected, or connecting raised)
\* or a failed catalog load leaves the session Simulated, and Live only when
\* the connection succeeded and the catalog loaded; once start-up is over the
\* mode never changes and no further connection is attempted, so at most one
\* ever is.  (Every catalog explored has keys, so an empty self.commands
\* means the load failed or was never reached.)
C8_StartupFallback ==
    /\ []((phase # "boot" /\ argv_real) =>
            /\ use_sim <=> (obd_connection # "connected" \/ commands = {})
            /\ connects <= 1)
    /\ [][phase # "boot" => (use_sim' = use_sim /\ connects' = connects)]_vars

\* C8, witness: --real, the adapter connected but the catalog failed to load,
\* and the session has run simulated ticks.
C8_CatalogFailedSimulated ==
    /\ argv_real /\ phase = "running"
    /\ obd_connection = "connected" /\ commands = {} /\ connects = 1
    /\ use_sim /\ done.op = "tick" /\ runtime > 0

\* C9: without --real the session is Simulated, no connection is ever
\* attempted or held, and no handler (tick, trouble-code read, trouble-code
\* clear) issues a query.
C9_SimulatedIsLocal ==
    (~argv_real /\ phase # "boot") =>
        /\ use_sim
        /\ connects = 0
        /\ obd_connection = "None"
        /\ issued = <<>>

\* C9, witness: without --real, after some ticks, a confirmed clear has reset
\* the two since-clear accumulators.
C9_SimulatedClearDone ==
    /\ ~argv_real /\ phase = "running"
    /\ done.op = "clear_dtc" /\ done.confirmed /\ done.notice = "info_cleared"
    /\ runtime > 0 /\ dist_dtc = 0 /\ time_dtc = 0

\* C10, as stated: in every variant, after a tick that raised the refresh is
\* still running, so the next scheduled tick can run.
C10_RaisedTickSwallowed ==
    (done.op = "tick" /\ done.raised) => phase = "running"

\* C11: every change of a gauge's value or last drawn value, of runtime,
\* dist_dtc, time_dtc or of current_page happens in a step of the UI thread:
\* a step in which the background thread moves or the GPIO thread takes a
\* press changes none of them, so these writes are never concurrent.
C11_SharedStateWrittenOnUiThread ==
    [][(thread_pc' # thread_pc \/ presses' # presses) /\ phase # "boot"
         => UNCHANGED <<gauges, runtime, dist_dtc, time_dtc, current_page>>]_vars

\* both threads have acted and the UI thread has run their callbacks
C11_BothThreadsPosted ==
    /\ variant = "tk"
    /\ phase = "running"
    /\ thread_pc = "post"
    /\ presses = 2
    /\ current_page = 1
    /\ runtime > 0
    /\ gauges["speed"].redraws > 0

\* C12: once destroy() has cleared the stop flag the background thread
\* leaves its loop, wherever in its check-post-sleep cycle the destroy falls,
\* and from then on no step changes the gauges, the labels or the
\* accumulators.
C12_ThreadStopsAfterDestroy ==
    /\ [][phase = "destroyed"
            => UNCHANGED <<gauges, labels, runtime, dist_dtc, time_dtc,
                           current_page>>]_vars
    /\ [](phase = "destroyed" => ~_running /\ queue = <<>>)
    /\ ((variant = "tk" /\ phase = "destroyed") ~> thread_pc = "exit")

\* the window was destroyed after ticks had run, and the thread has ended
C12_ThreadExited ==
    /\ variant = "tk"
    /\ phase = "destroyed"
    /\ thread_pc = "exit"
    /\ ~_running
    /\ runtime > 0

\* C13: in Live mode, closing the window releases the adapter connection
\* that start-up opened: once teardown is done the connection is not open.
C13_TeardownClosesConnection ==
    (phase = "destroyed" /\ ~use_sim) => obd_connection # "connected"

\* C14: in Live mode, when the adapter's answer to the read-trouble-codes or
\* clear-trouble-codes query is a failure (the query raised or the response
\* is null), the notice shown for that action is the error notice, never
\* "no trouble codes / status OK" or "codes cleared"; the dashboard goes on
\* running.
C14_FailedDtcCallShownAsError ==
    (/\ ~use_sim
     /\ done.op \in {"get_dtc", "clear_dtc"}
     /\ done.q \in {"raise", "null"})
    => (done.notice = "error" /\ phase = "running")

\* C15: in Live mode a confirmed clear leaves both since-clear accumulators
\* at 0 whatever the clear query met: an answer, a null response, an
\* exception, or a catalog without the command; in every variant.
C15_LiveClearAlwaysResets ==
    (/\ ~use_sim
     /\ done.op = "clear_dtc"
     /\ done.confirmed
     /\ done.q \in {"val", "null", "raise", "unavailable"})
    => (dist_dtc = 0 /\ time_dtc = 0)

\* C16: every press of the GPIO button advances the page by exactly one,
\* wrapping over the 4 pages: once the UI thread has run every posted
\* switch, the page shown after n presses from page 0 is n mod 4, however
\* the presses interleave with the UI thread.
C16_PressAdvancesOnePage ==
    (/\ variant = "tk"
     /\ phase = "running"
     /\ \A i \in 1..Len(queue) : queue[i].fn # "switch")
    => current_page = presses % NumPages

\* C17: for every gauge in every variant and every value it displays, the
\* active arc's extent handed to the renderer is -270 * ratio, so the arc
\* that starts at 225 degrees ends at the needle angle 225 - 270 * ratio;
\* the extent is 0 at the minimum and -270 at the maximum.  (Extents are in
\* sixteenths of a degree and, like the needle angle, scaled by the range.)
C17_ArcEndsAtNeedle ==
    phase = "running" =>
        \A g \in GaugeNames :
            \E geo \in {Geometry(variant, GaugeSpec[g], gauges[g].value)} :
                /\ geo.extent16 = -(SpanAngle * 16 * geo.num)
                /\ StartAngle * 16 * geo.den + geo.extent16 = 16 * geo.needle
                /\ (gauges[g].value = GaugeSpec[g].min_val => geo.extent16 = 0)
                /\ (gauges[g].value = GaugeSpec[g].max_val
                       => geo.extent16 = -(SpanAngle * 16 * geo.den))

\* C18: a simulated trouble-code read lists 0 to 3 codes, each one of
\* P0420, P0171, P0101, P0300, C0035 and none of them twice, and the read
\* changes no accumulator and no gauge.
C18_SimulatedCodesAreASample ==
    /\ []((use_sim /\ done.op = "get_dtc") =>
            /\ Len(done.codes) \in 0..3
            /\ \A i \in 1..Len(done.codes) :
                 done.codes[i] \in {"P0420", "P0171", "P0101", "P0300", "C0035"}
            /\ \A i, j \in 1..Len(done.codes) :
                 done.codes[i] = done.codes[j] => i = j
            /\ done.notice = IF done.codes = <<>> THEN "info_ok"
                             ELSE "warning_codes")
    /\ [][(use_sim /\ done'.op = "get_dtc")
            => UNCHANGED <<runtime, dist_dtc, time_dtc, gauges>>]_vars

\* a simulated read after some ticks that listed three codes
C18_ThreeCodesRead ==
    /\ use_sim
    /\ phase = "running"
    /\ done.op = "get_dtc"
    /\ Len(done.codes) = 3
    /\ runtime > 0

\* C19: a Live query that never returns does not block the UI thread: while
\* it is outstanding the UI thread can still take a UI event (a page switch,
\* a trouble-code action, the closing of the window).
C19_HungQueryLeavesUiResponsive ==
    phase = "blocked" => ENABLED UiEvent

\* C20: in Simulated mode every tick adds exactly 0.1 to runtime, exactly
\* 0.1 to time_dtc and between 0.01 and 0.05 to dist_dtc, whatever the
\* variant's tick period; with no clear, runtime and time_dtc are equal and
\* dist_dtc lies between 0.01 and 0.05 per tick.  (runtime and time_dtc are
\* in tenths, dist_dtc in hundredths; a tick is the UI thread running a
\* posted _update, or the timer's slot.)
C20_SimulatedTickIncrements ==
    /\ [][(/\ use_sim
           /\ phase = "running"
           /\ done'.op = "tick"
           /\ (variant = "tk" => (queue # <<>> /\ queue' = Tail(queue))))
          => (/\ runtime' = runtime + 1
              /\ time_dtc' = time_dtc + 1
              /\ dist_dtc' - dist_dtc \in 1..5)]_vars
    /\ []((use_sim /\ phase = "running")
            => /\ time_dtc = runtime
               /\ 1 * runtime <= dist_dtc
               /\ dist_dtc <= 5 * runtime)

\* three simulated ticks that added 0.01, 0.03 and 0.05 km in some order
C20_ThreeTicks ==
    /\ use_sim
    /\ phase = "running"
    /\ runtime = 3
    /\ time_dtc = 3
    /\ dist_dtc = 9

\* C21: in Simulated mode every reading a tick samples lies within the fixed
\* bounds of its metric, and max_maf is 255 in every tick.  (Values in
\* tenths.)
C21_SimulatedReadingsInBounds ==
    LET bounds ==
            [speed           |-> <<0, 1800>>,
             rpm             |-> <<8000, 70000>>,
             throttle_pos    |-> <<0, 1000>>,
             eng_load        |-> <<100, 950>>,
             timing_advance  |-> <<-100, 450>>,
             coolant_temp    |-> <<700, 1050>>,
             intake_temp     |-> <<150, 450>>,
             oil_temp        |-> <<800, 1200>>,
             fuel_pressure   |-> <<2500, 5500>>,
             fuel_rate       |-> <<5, 250>>,
             intake_pressure |-> <<300, 1200>>,
             maf             |-> <<20, 950>>,
             max_maf         |-> <<2550, 2550>>]
    IN  (use_sim /\ done.op = "tick") =>
            /\ ~done.raised
            /\ \A m \in DOMAIN bounds :
                 /\ snap[m].q = "none"
                 /\ snap[m].out # None
                 /\ bounds[m][1] <= snap[m].out[1]
                 /\ snap[m].out[1] <= bounds[m][2]
            /\ labels.max_maf = 2550

\* a simulated tick that drew every metric at its upper bound
C21_UpperBoundsDrawn ==
    /\ use_sim
    /\ done.op = "tick"
    /\ snap["speed"].out = Some(1800)
    /\ snap["fuel_rate"].out = Some(250)
    /\ snap["intake_pressure"].out = Some(1200)
    /\ gauges["speed"].value = 1800

\* how often query q occurs in the sequence of issued queries
Count(seq, q) == Cardinality({i \in 1..Len(seq) : seq[i] = q})

\* C22, as stated: in Live mode every completed tick issues exactly one
\* query for each of the 15 metrics and none for intake_pressure, which is
\* drawn locally from 30..120.
C22_OneQueryPerMetric ==
    (~use_sim /\ done.op = "tick" /\ ~done.raised) =>
        /\ \A m \in LiveMetrics : Count(issued, m) = 1
        /\ Count(issued, "intake_pressure") = 0
        /\ snap["intake_pressure"].q = "none"
        /\ snap["intake_pressure"].out # None
        /\ snap["intake_pressure"].out[1] \in 300..1200

\* C22, amended: in Live mode every completed tick issues exactly one query
\* for each of the 15 metrics that the loaded command catalog contains, no
\* query for a metric the catalog lacks and none for intake_pressure; in
\* either mode intake_pressure is drawn locally from 30..120.
C22_OneQueryPerCatalogMetric ==
    (done.op = "tick" /\ ~done.raised) =>
        /\ ~use_sim =>
              \A m \in LiveMetrics :
                 Count(issued, m) = IF m \in commands THEN 1 ELSE 0
        /\ use_sim => issued = <<>>
        /\ Count(issued, "intake_pressure") = 0
        /\ snap["intake_pressure"].q = "none"
        /\ snap["intake_pressure"].out # None
        /\ snap["intake_pressure"].out[1] \in 300..1200

\* a completed Live tick under a catalog that lacks one metric: 14 queries
C22_FourteenQueries ==
    /\ ~use_sim
    /\ done.op = "tick"
    /\ ~done.raised
    /\ Cardinality(LiveMetrics \ commands) = 1
    /\ Len(issued) = 14

\* C23: on every gauge that is drawn, mark i (0..8) stands at 225 - 270*i/8
\* degrees, from 225 for mark 0 down to -45 for mark 8, strictly decreasing,
\* and carries the value min + (max - min)*i/8; mark 0 is labelled min and
\* mark 8 max; the 0..8000 gauge is labelled 0, 1000, ..., 8000.
C23_MarksSpanTheArc ==
    phase = "running" =>
        /\ \A g \in GaugeNames :
             \E mk \in {_draw_marks(GaugeSpec[g])} :
                /\ DOMAIN mk = 0..8
                /\ \A i \in 0..8 :
                     /\ mk[i].angle8 = 225 * 8 - 270 * i
                     /\ mk[i].val80 = 8 * GaugeSpec[g].min_val
                           + (GaugeSpec[g].max_val - GaugeSpec[g].min_val) * i
                /\ \A i \in 0..7 : mk[i + 1].angle8 < mk[i].angle8
                /\ mk[0].angle8 = 225 * 8
                /\ mk[8].angle8 = (-45) * 8
                /\ 10 * mk[0].label = GaugeSpec[g].min_val
                /\ 10 * mk[8].label = GaugeSpec[g].max_val
        /\ [i \in 0..8 |-> _draw_marks(GaugeSpec["rpm"])[i].label]
             = [i \in 0..8 |-> 1000 * i]

\* the dashboard is up, a gauge has been redrawn, and the 0..8000 gauge
\* carries 4000 on its middle mark
C23_RpmMarksDrawn ==
    /\ phase = "running"
    /\ gauges["speed"].redraws > 0
    /\ GaugeSpec["rpm"].max_val = Fx(8000)
    /\ _draw_marks(GaugeSpec["rpm"])[4].label = 4000

\* C24: for every configured gauge range and every mark i (0..8) the label
\* shown is min + (max - min)*i/8 rounded to the nearest integer (on a tie,
\* either neighbour).
C24_LabelsRoundedToNearest ==
    phase = "running" =>
        \A g \in GaugeNames :
            \A i \in 0..8 :
                \E mk \in {_draw_marks(GaugeSpec[g])[i]} :
                    Abs(80 * mk.label - mk.val80) <= 40

\* C25: after a tick, for runtime and for time_dtc (seconds s >= 0), the
\* clock text H:M:S satisfies 3600*H + 60*M + S = floor(s) with M and S in
\* 0..59; each field is written with at least two digits, zero-padded, and
\* the hours are not wrapped at 24.
C25_ClockTextIsFloorOfSeconds ==
    (phase = "running" /\ done.op = "tick" /\ ~done.raised) =>
        \A p \in {<<runtime, labels.runtime>>, <<time_dtc, labels.time>>} :
            \E s \in {p[1]}, c \in {p[2]}, t \in {ClockText(p[2])} :
                /\ s >= 0
                /\ 3600 * c[1] + 60 * c[2] + c[3] = s \div 10
                /\ c[1] = (s \div 10) \div 3600
                /\ c[2] \in 0..59
                /\ c[3] \in 0..59
                /\ \A k \in 1..3 :
                     /\ Len(t[k]) >= 2
                     /\ Len(t[k]) <= 3
                     /\ \A d \in 1..Len(t[k]) : t[k][d] \in 0..9
                     /\ c[k] = IF Len(t[k]) = 2
                               THEN 10 * t[k][1] + t[k][2]
                               ELSE 100 * t[k][1] + 10 * t[k][2] + t[k][3]
                     /\ (Len(t[k]) = 3 => t[k][1] # 0)

\* a Live tick that read a run time of 25 h 1 min 1 s and a time since
\* clear of 100 h: the clocks show 25:01:01 and 100:00:00
C25_PastOneDay ==
    /\ phase = "running"
    /\ done.op = "tick"
    /\ runtime = 900610
    /\ ClockText(labels.runtime) = <<(<<2, 5>>), (<<0, 1>>), (<<0, 1>>)>>
    /\ ClockText(labels.time) = <<(<<1, 0, 0>>), (<<0, 0>>), (<<0, 0>>)>>

\* C26: for every gauge of dashboard.py, once set_value has been called at
\* least once, the displayed value equals the last drawn value, lies within
\* [min, max], and differs from the clamped most recent argument by at most
\* 0.5.
C26_DisplayedValueNeverStale ==
    variant = "tk" =>
        \A g \in GaugeNames :
            gauges[g].arg # None =>
                /\ gauges[g].last = Some(gauges[g].value)
                /\ GaugeSpec[g].min_val <= gauges[g].value
                /\ gauges[g].value <= GaugeSpec[g].max_val
                /\ \E c \in {Max2(GaugeSpec[g].min_val,
                                   Min2(GaugeSpec[g].max_val, gauges[g].arg[1]))} :
                      /\ gauges[g].value - c <= 5
                      /\ c - gauges[g].value <= 5

\* dashboard.py: the speed gauge shows 50.0 after set_value(50.5), exactly
\* the threshold away, and was not redrawn by that call
C26_KeptAtThreshold ==
    /\ variant = "tk"
    /\ gauges["speed"].arg = Some(505)
    /\ gauges["speed"].value = 500
    /\ gauges["speed"].last = Some(500)
    /\ gauges["speed"].redraws = 0

\* C27: in dashboard.py at most one posted _update is waiting in the UI
\* event queue at any time: the background loop does not post the next one
\* before the previous one has run.
C27_AtMostOneUpdatePending ==
    variant = "tk" =>
        Cardinality({i \in 1..Len(queue) : queue[i].fn = "update"}) <= 1

\* C28: in Live mode a confirmed clear leaves dist_dtc and time_dtc at 0,
\* and each of them stays 0 through the following ticks until the first
\* tick whose query for that counter answers a strictly positive value, at
\* which tick it becomes exactly that value.  (A tick is the UI thread
\* running a posted _update, or the timer's slot.)
C28_ZeroUntilPositiveRead ==
    [][~use_sim =>
        /\ (done'.op = "clear_dtc" /\ done'.confirmed)
              => (dist_dtc' = 0 /\ time_dtc' = 0)
        /\ \A p \in {<<dist_dtc, dist_dtc', "dist_since_dtc_cleared">>,
                       <<time_dtc, time_dtc', "time_since_dtc_cleared">>} :
             \E tick \in {/\ phase = "running"
                           /\ done'.op = "tick"
                           /\ (variant = "tk" =>
                                 (queue # <<>> /\ queue' = Tail(queue)))},
                read \in {snap'[p[3]].out} :
                /\ (p[1] = 0 /\ p[2] # 0)
                      => (tick /\ read = Some(p[2]) /\ p[2] > 0)
                /\ (p[1] = 0 /\ tick /\ ~done'.raised /\ read # None
                        /\ snap'[p[3]].q = "val")
                      => p[2] = IF read[1] > 0 THEN read[1] ELSE 0]_vars

\* C29: when the user declines the clear confirmation nothing changes:
\* dist_dtc, time_dtc, runtime, the mode and the gauges are as before, no
\* query is issued and no notice is shown, in either mode.
C29_DeclinedClearChangesNothing ==
    [][(done'.op = "clear_dtc" /\ ~done'.confirmed)
         => /\ UNCHANGED <<dist_dtc, time_dtc, runtime, use_sim, gauges,
                           labels, commands, obd_connection, connects>>
            /\ issued' = <<>>
            /\ done'.q = "none"
            /\ done'.notice = "none"]_vars

\* a declined clear in Live mode after a tick had read positive counters
C29_DeclinedInLive ==
    /\ ~use_sim
    /\ phase = "running"
    /\ done.op = "clear_dtc"
    /\ ~done.confirmed
    /\ dist_dtc > 0
    /\ time_dtc > 0
    /\ runtime > 0

\* C30, as stated: in every tick the MAF bar's fraction is maf / max_maf
\* when max_maf > 0 and 0 otherwise; whatever max_maf is read, 0 and
\* negative values included, the tick does not divide by zero and completes.
C30_MafBarIsRatio ==
    (/\ phase = "running"
     /\ done.op = "tick"
     /\ snap["maf"].out # None
     /\ snap["max_maf"].out # None)
    => \E maf \in {snap["maf"].out[1]}, mmaf \in {snap["max_maf"].out[1]} :
          /\ ~done.raised
          /\ labels.maf_bar[2] > 0
          /\ IF mmaf > 0
             THEN labels.maf_bar[1] * mmaf = maf * labels.maf_bar[2]
             ELSE labels.maf_bar[1] = 0

\* C30, amended: in every tick the value handed to the MAF bar is, when
\* max_maf > 0, the fraction maf / max_maf in dashboard.py and that ratio as
\* a whole percentage, int(100 * maf / max_maf) of 100, in the Qt variants,
\* and 0 otherwise; whatever max_maf is read, 0 and negative values
\* included, the tick does not divide by zero and completes.
C30_MafBarIsRatioOrPercent ==
    (/\ phase = "running"
     /\ done.op = "tick"
     /\ snap["maf"].out # None
     /\ snap["max_maf"].out # None)
    => \E maf \in {snap["maf"].out[1]}, mmaf \in {snap["max_maf"].out[1]} :
          /\ ~done.raised
          /\ labels.maf_bar[2] > 0
          /\ IF mmaf <= 0
             THEN labels.maf_bar[1] = 0
             ELSE IF variant = "tk"
             THEN labels.maf_bar[1] * mmaf = maf * labels.maf_bar[2]
             ELSE /\ labels.maf_bar[2] = 100
                  /\ maf >= 0
                  /\ labels.maf_bar[1] * mmaf <= 100 * maf
                  /\ 100 * maf < (labels.maf_bar[1] + 1) * mmaf

\* completed Live ticks have read max_maf = -1 with a positive maf: the
\* bar was set to 0
C30_NegativeMaxMaf ==
    /\ phase = "running"
    /\ done.op = "tick"
    /\ ~done.raised
    /\ snap["max_maf"].out = Some(-10)
    /\ snap["maf"].out = Some(1000)
    /\ labels.maf_bar = <<0, 1>>

====
